---- MODULE Spec2Model ----
(***************************************************************************)
(* A model of the house-price notebook src/house_price_pred.ipynb.         *)
(*                                                                         *)
(* The notebook is a linear script of cells.  It is modelled at two        *)
(* levels that share one module:                                           *)
(*                                                                         *)
(*  - SpecPrep, the data level: the cells of the Cleaner, the outlier      *)
(*    section, the Encoder and the Feature Selector as transformations of  *)
(*    concrete data frames (columns, row labels, dtypes and cells).        *)
(*                                                                         *)
(*  - Spec, the kernel level: every code cell of the notebook as a list    *)
(*    of statements with the names each one reads and binds, the           *)
(*    exceptions a statement raises, the train/test partitions and what    *)
(*    each model family is fitted and used on.                             *)
(*                                                                         *)
(* Line numbers in comments are lines of src/house_price_pred.ipynb.       *)
(***************************************************************************)
EXTENDS Integers, Sequences, FiniteSets, TLC

(***************************************************************************)
(* Bounds of the model.                                                    *)
(***************************************************************************)
\* Rows of the raw frame at the data level (10 rows make a missing
\* fraction of exactly 0.3 possible).
NRows == 10

\* At most this many columns of a raw frame hold missing cells.
MaxFaulty == 2

\* Number of distinct entropy seeds an unseeded estimator may draw.
NSeeds == 2

\* At most this many features share one importance above the threshold.
MaxTie == 2

(***************************************************************************)
(* Program constants.                                                      *)
(***************************************************************************)
\* threshold = 0.3 (line 201), as the fraction ThresholdNum / ThresholdDen.
ThresholdNum == 3

ThresholdDen == 10

\* feature_importance > 0.001 (line 652), in millionths.
ImportanceThreshold == 1000

\* RandomForestRegressor(random_state=1) (line 642).
RandomState == 1

(***************************************************************************)
(* Cell values.  A cell is missing (NaN), a string, a rational number      *)
(* num/den (den > 0, in lowest terms) or a boolean.                        *)
(***************************************************************************)
Abs(a) == IF a < 0 THEN -a ELSE a

RECURSIVE GCD(_, _)
GCD(a, b) == IF b = 0 THEN a ELSE GCD(b, a % b)

NaN == [t |-> "na", s |-> "", num |-> 0, den |-> 1]

Str(s) == [t |-> "str", s |-> s, num |-> 0, den |-> 1]

Num(a, b) ==
    LET g == GCD(Abs(a), b)
    IN  [t |-> "num", s |-> "", num |-> a \div g, den |-> b \div g]

Bool(b) == [t |-> "bool", s |-> "", num |-> IF b THEN 1 ELSE 0, den |-> 1]

IsNull(v) == v.t = "na"

Range(s) == {s[i] : i \in DOMAIN s}

\* Python's order of the category strings of the model (str.__lt__, as
\* np.unique and sorted() use it).
LexOrder == <<"Ex", "Fa", "Gd", "N", "RL", "RM", "TA", "Y">>

(***************************************************************************)
(* Data frames: an ordered list of column labels, an ordered list of row   *)
(* labels (the index), a dtype per column and a value per cell.            *)
(***************************************************************************)
NoFrame == [cols |-> <<>>, index |-> <<>>, dtype |-> <<>>, cell |-> <<>>]

HasCol(f, c) == c \in Range(f.cols)

\* DataFrame.drop(columns=S) / DataFrame.drop(S, axis=1), S present.
DropCols(f, S) ==
    LET Keep(c) == c \notin S
        kept == Range(f.cols) \ S
    IN  [cols  |-> SelectSeq(f.cols, Keep),
         index |-> f.index,
         dtype |-> [c \in kept |-> f.dtype[c]],
         cell  |-> [c \in kept |-> f.cell[c]]]

\* Series.isnull().sum() of column c.
NullCount(f, c) == Cardinality({r \in Range(f.index) : IsNull(f.cell[c][r])})

\* DataFrame.isnull().any() of column c.
AnyNull(f, c) == \E r \in Range(f.index) : IsNull(f.cell[c][r])

\* Number of missing cells of the whole frame.
MissingCells(f) ==
    Cardinality({<<c, r>> \in Range(f.cols) \X Range(f.index) : IsNull(f.cell[c][r])})

\* f with column c (already present) replaced by values col of dtype dt.
SetColumn(f, c, col, dt) ==
    [f EXCEPT !.cell[c] = col, !.dtype[c] = dt]

(***************************************************************************)
(* The input: data.csv as pd.read_csv returns it (lines 92-94).  The model *)
(* keeps one column of each kind of the Ames schema.                       *)
(***************************************************************************)
Schema == <<"Id", "LotFrontage", "MSZoning", "ExterQual", "CentralAir", "SalePrice">>

CategoricalColumns == {"MSZoning", "ExterQual", "CentralAir"}

\* The value the file holds at row r of column c, when it holds one.
RawValue(c, r) ==
    CASE c = "Id"          -> Num(r, 1)
      [] c = "LotFrontage" -> Num(IF r = 8 THEN 312 ELSE 60 + r, 1)
      [] c = "MSZoning"    -> Str(IF r % 3 = 0 THEN "RM" ELSE "RL")
      [] c = "ExterQual"   -> Str(<<"TA", "Gd", "Ex", "Fa">>[(r % 4) + 1])
      [] c = "CentralAir"  -> Str(IF r % 4 = 0 THEN "N" ELSE "Y")
      [] OTHER             -> Num(100 + 10 * r + (r % 2), 1)

\* The dtype read_csv infers: a wholly empty column is float64, a column of
\* strings is object, integers without a gap are int64, with a gap float64.
RawDtype(c, k, n) ==
    IF k = n THEN "float64"
    ELSE IF c \in CategoricalColumns THEN "object"
    ELSE IF k = 0 THEN "int64" ELSE "float64"

\* The frame of n rows whose column c misses its first miss[c] cells.
ReadCsv(n, miss) ==
    [cols  |-> Schema,
     index |-> [r \in 1..n |-> r],
     dtype |-> [c \in Range(Schema) |-> RawDtype(c, miss[c], n)],
     cell  |-> [c \in Range(Schema) |->
                  [r \in 1..n |-> IF r <= miss[c] THEN NaN ELSE RawValue(c, r)]]]

\* Missing counts a column of n rows is given: none, the largest count
\* within the threshold, the smallest above it, all.
MissingChoices(n) ==
    {0, (ThresholdNum * n) \div ThresholdDen,
        (ThresholdNum * n) \div ThresholdDen + 1, n} \cap (0..n)

RawFrames ==
    {ReadCsv(NRows, miss) :
        miss \in {m \in [Range(Schema) -> MissingChoices(NRows)] :
                    Cardinality({c \in Range(Schema) : m[c] > 0}) <= MaxFaulty}}

(***************************************************************************)
(* Rational arithmetic on numeric cells.                                   *)
(***************************************************************************)
AddQ(x, y) == Num(x.num * y.den + y.num * x.den, x.den * y.den)

SubQ(x, y) == Num(x.num * y.den - y.num * x.den, x.den * y.den)

\* x * (a / b)
ScaleQ(x, a, b) == Num(x.num * a, x.den * b)

LeQ(x, y) == x.num * y.den <= y.num * x.den

\* int(x): truncation toward zero.
TruncQ_Ceiling(x) == -((-x.num) \div x.den)

TruncQ(x) ==
    IF x.num >= 0 THEN x.num \div x.den ELSE -((-x.num) \div x.den)

(***************************************************************************)
(* Cleaner: the column drop (lines 200-215).                               *)
(***************************************************************************)
\* missing_percentages[missing_percentages > threshold].index (lines 204-207):
\* the columns whose fraction of missing cells exceeds the threshold.  The
\* fraction k/n and the literal 0.3 are doubles; k/n > 0.3 as doubles exactly
\* when 10k > 3n, the division being correctly rounded.
ColumnsToDrop_AtLeast(f) ==
    {c \in Range(f.cols) :
        NullCount(f, c) * ThresholdDen >= ThresholdNum * Len(f.index)}

ColumnsToDrop(f) ==
    {c \in Range(f.cols) :
        NullCount(f, c) * ThresholdDen > ThresholdNum * Len(f.index)}

\* df.drop(columns=columns_to_drop) (line 210).
DropHighMissing_Nothing(f) == f

DropHighMissing(f) == DropCols(f, ColumnsToDrop(f))

(***************************************************************************)
(* Cleaner: column classes (lines 224-246).                                *)
(***************************************************************************)
\* select_dtypes(include=['object']).columns (line 225).
ObjectColumns(f) ==
    LET IsObject(c) == f.dtype[c] = "object"
    IN  SelectSeq(f.cols, IsObject)

\* select_dtypes(include=[np.number]).columns (line 226).
NumberColumns(f) ==
    LET IsNumber(c) == f.dtype[c] \in {"int64", "float64"}
    IN  SelectSeq(f.cols, IsNumber)

\* [col for col in columns if df_dropped[col].isnull().any()] (lines 239-240).
NullColumns(f, columns) ==
    LET HasNull(c) == AnyNull(f, c)
    IN  SelectSeq(columns, HasNull)

(***************************************************************************)
(* Cleaner: imputation (lines 264-288).                                    *)
(***************************************************************************)
\* The distinct strings of column c, sorted.
Categories(f, c) ==
    LET Occurs(s) == \E r \in Range(f.index) : f.cell[c][r] = Str(s)
    IN  SelectSeq(LexOrder, Occurs)

Count(f, c, v) == Cardinality({r \in Range(f.index) : f.cell[c][r] = v})

\* SimpleImputer(strategy="most_frequent"): the most frequent value, the
\* smallest one among equally frequent values.
Mode(f, c) ==
    LET cats == Categories(f, c)
        best == CHOOSE i \in DOMAIN cats :
                   /\ \A j \in DOMAIN cats :
                        Count(f, c, Str(cats[j])) <= Count(f, c, Str(cats[i]))
                   /\ \A j \in 1..(i - 1) :
                        Count(f, c, Str(cats[j])) < Count(f, c, Str(cats[i]))
    IN  Str(cats[best])

\* Column c with every missing cell replaced by v.
Filled(f, c, v) ==
    [r \in Range(f.index) |-> IF IsNull(f.cell[c][r]) THEN v ELSE f.cell[c][r]]

\* df_dropped[column] = most_freq_imp.fit_transform(df_dropped[[column]]).ravel()
\* (line 267).
FillMode_Skipped(f, c) == f

FillMode(f, c) ==
    IF Categories(f, c) = <<>> THEN f
    ELSE SetColumn(f, c, Filled(f, c, Mode(f, c)), "object")

RECURSIVE FillModeAll(_, _)
FillModeAll(f, columns) ==
    IF columns = <<>> THEN f
    ELSE FillModeAll(FillMode(f, Head(columns)), Tail(columns))

RECURSIVE SumRows(_, _, _)
SumRows(f, c, rows) ==
    IF rows = <<>> THEN Num(0, 1)
    ELSE LET v == f.cell[c][Head(rows)]
             rest == SumRows(f, c, Tail(rows))
         IN  IF IsNull(v) THEN rest ELSE AddQ(v, rest)

\* Series.mean(): the mean of the cells that are not missing (NaN when there
\* is none).
Mean(f, c) ==
    LET k == Len(f.index) - NullCount(f, c)
    IN  IF k = 0 THEN NaN ELSE ScaleQ(SumRows(f, c, f.index), 1, k)

\* df_dropped[column].fillna(df_dropped[column].mean(), inplace=True) (line 288).
FillMean(f, c) == SetColumn(f, c, Filled(f, c, Mean(f, c)), "float64")

RECURSIVE FillMeanAll(_, _)
FillMeanAll(f, columns) ==
    IF columns = <<>> THEN f
    ELSE FillMeanAll(FillMean(f, Head(columns)), Tail(columns))

\* Index.isna() of one column label: read_csv gives every column a string
\* label, and a string is never a missing value.
IsNullLabel(c) == FALSE

\* df_dropped.columns.isna().sum() (line 298): the number of column LABELS
\* that are missing values.
StillNull(f) == Cardinality({i \in DOMAIN f.cols : IsNullLabel(f.cols[i])})

(***************************************************************************)
(* Outlier section (lines 417-499).  Both removal cells are string         *)
(* literals: evaluating them changes nothing.                              *)
(***************************************************************************)
RECURSIVE Insert(_, _)
Insert(x, sorted) ==
    IF sorted = <<>> THEN <<x>>
    ELSE IF LeQ(x, Head(sorted)) THEN <<x>> \o sorted
    ELSE <<Head(sorted)>> \o Insert(x, Tail(sorted))

RECURSIVE SortedValues(_, _, _)
SortedValues(f, c, rows) ==
    IF rows = <<>> THEN <<>>
    ELSE Insert(f.cell[c][Head(rows)], SortedValues(f, c, Tail(rows)))

\* Series.quantile(a/4), linear interpolation between the two nearest ranks.
Quantile(f, c, a) ==
    LET v   == SortedValues(f, c, f.index)
        pos == (Len(v) - 1) * a
        lo  == pos \div 4 + 1
        hi  == IF lo < Len(v) THEN lo + 1 ELSE lo
    IN  AddQ(v[lo], ScaleQ(SubQ(v[hi], v[lo]), pos % 4, 4))

\* remove_outliers(df, col) as the literal of lines 458-463 defines it.
RemoveOutliers(f, c) ==
    LET Q1 == Quantile(f, c, 1)
        Q3 == Quantile(f, c, 3)
        IQR == SubQ(Q3, Q1)
        Inside(r) == /\ LeQ(SubQ(Q1, ScaleQ(IQR, 3, 2)), f.cell[c][r])
                     /\ LeQ(f.cell[c][r], AddQ(Q3, ScaleQ(IQR, 3, 2)))
    IN  IF f.index = <<>> THEN f ELSE [f EXCEPT !.index = SelectSeq(f.index, Inside)]

RECURSIVE RemoveOutliersAll(_, _)
RemoveOutliersAll(f, columns) ==
    IF columns = <<>> THEN f
    ELSE RemoveOutliersAll(RemoveOutliers(f, Head(columns)), Tail(columns))

\* The IQR cell with its code outside the string literal: the loop of lines
\* 465-466 over the numeric columns the frame still holds.
IQRCell_Executed(f, columns) ==
    LET Present(c) == HasCol(f, c) /\ ~AnyNull(f, c)
    IN  RemoveOutliersAll(f, SelectSeq(columns, Present))

\* The IQR cell (lines 457-467): a string literal, df_clean is not touched.
IQRCell(f, columns) == f

\* The z-score cell (lines 483-490): a string literal, df_clean is not touched.
ZScoreCell(f, columns) == f

(***************************************************************************)
(* Encoder (lines 532-609).  The model keeps one column of each group.     *)
(***************************************************************************)
\* variables with specific order in the categories (lines 533-535)
ord_enc_cols == <<"ExterQual">>

\* variables without any order in the categories (lines 538-542)
one_hot_enc_cols == <<"MSZoning">>

\* variables with only 2 categories (line 545)
bin_enc_cols == <<"CentralAir">>

IndexOf(seq, x) == CHOOSE i \in DOMAIN seq : seq[i] = x

\* The codes an encoder fitted on column c gives its cells: the position of
\* the cell's value among the sorted distinct values, counted from 0.  A
\* missing cell stays missing.
Codes(f, c) ==
    LET cats == Categories(f, c)
    IN  [r \in Range(f.index) |->
            IF IsNull(f.cell[c][r]) THEN NaN
            ELSE Num(IndexOf(cats, f.cell[c][r].s) - 1, 1)]

\* df_clean[col] = ord_enc.fit_transform(df_clean[[col]]) (line 567).
OrdinalEncode(f, c) == SetColumn(f, c, Codes(f, c), "float64")

\* df_clean[col] = bin_enc.fit_transform(df_clean[col]) (line 590).
LabelEncode(f, c) == SetColumn(f, c, Codes(f, c), "int64")

\* A loop "for col in columns: df_clean[col] = ..." over frame f: the frame
\* it leaves and the exception that ended it ("none" when it ran through).
\* Indexing a column the frame does not hold raises KeyError.
RECURSIVE OrdinalEncodeAll(_, _)
OrdinalEncodeAll(f, columns) ==
    IF columns = <<>> THEN [frame |-> f, exc |-> "none"]
    ELSE IF ~HasCol(f, Head(columns)) THEN [frame |-> f, exc |-> "KeyError"]
    ELSE OrdinalEncodeAll(OrdinalEncode(f, Head(columns)), Tail(columns))

\* LabelEncoder sorts the values of the column: a missing cell among strings
\* raises TypeError.
RECURSIVE LabelEncodeAll(_, _)
LabelEncodeAll(f, columns) ==
    IF columns = <<>> THEN [frame |-> f, exc |-> "none"]
    ELSE IF ~HasCol(f, Head(columns)) THEN [frame |-> f, exc |-> "KeyError"]
    ELSE IF AnyNull(f, Head(columns)) THEN [frame |-> f, exc |-> "TypeError"]
    ELSE LabelEncodeAll(LabelEncode(f, Head(columns)), Tail(columns))

\* The label of the indicator column of category cat of column c.
DummyName(c, cat) == c \o "_" \o cat

\* The indicator columns generated from column c: one per distinct value from
\* the first-th on, in sorted order.
DummyColumns(f, c, first) ==
    LET cats == Categories(f, c)
    IN  [i \in 1..(Len(cats) - first + 1) |-> DummyName(c, cats[i + first - 1])]

RECURSIVE AllDummyColumns(_, _, _)
AllDummyColumns(f, columns, first) ==
    IF columns = <<>> THEN <<>>
    ELSE DummyColumns(f, Head(columns), first)
            \o AllDummyColumns(f, Tail(columns), first)

\* The original column and the category an indicator column stands for.
DummySource(columns, d) ==
    CHOOSE p \in Range(columns) \X Range(LexOrder) : DummyName(p[1], p[2]) = d

\* The frame get_dummies builds from f, every column of columns present: the
\* other columns in their order, then the indicator columns of each encoded
\* column.  An indicator is True exactly in the rows that hold its category,
\* so a row whose cell is missing has no True.
Dummies(f, columns, first) ==
    LET Kept(c) == c \notin Range(columns)
        kept    == SelectSeq(f.cols, Kept)
        dummies == AllDummyColumns(f, columns, first)
        Indicator(d) ==
            LET p == DummySource(columns, d)
            IN  [r \in Range(f.index) |-> Bool(f.cell[p[1]][r] = Str(p[2]))]
    IN  [cols  |-> kept \o dummies,
         index |-> f.index,
         dtype |-> [c \in Range(kept) \cup Range(dummies) |->
                       IF c \in Range(kept) THEN f.dtype[c] ELSE "bool"],
         cell  |-> [c \in Range(kept) \cup Range(dummies) |->
                       IF c \in Range(kept) THEN f.cell[c] ELSE Indicator(c)]]

\* pd.get_dummies(df_clean, columns=columns) (line 579): drop_first is left
\* at its default, so every category gets an indicator.
GetDummies_DropFirst(f, columns) == Dummies(f, columns, 2)

GetDummies(f, columns) == Dummies(f, columns, 1)

\* int(v) of one cell, for a cell that has one.
IntOf(v) == Num(TruncQ(v), 1)

\* Whether astype(int) can convert cell v: a missing value or a string that
\* is not a number raises ValueError.
Castable(v) == v.t \in {"num", "bool"}

\* df_clean.astype(int) (line 600), every cell castable.
AstypeInt(f) ==
    [f EXCEPT !.dtype = [c \in Range(f.cols) |-> "int64"],
              !.cell  = [c \in Range(f.cols) |->
                            [r \in DOMAIN f.cell[c] |->
                                IF Castable(f.cell[c][r]) THEN IntOf(f.cell[c][r])
                                ELSE f.cell[c][r]]]]

AllCastable(f) ==
    \A c \in Range(f.cols) : \A r \in Range(f.index) : Castable(f.cell[c][r])

(***************************************************************************)
(* Feature Selector (lines 642-673).                                       *)
(***************************************************************************)
\* df_encoded.drop('SalePrice', axis=1).columns (lines 643, 649).
Features(f) ==
    LET NotTarget(c) == c # "SalePrice"
    IN  SelectSeq(f.cols, NotTarget)

\* The importances a fitted forest may report for a feature, in millionths:
\* at the threshold, just above it and well above it.
ImportanceValues ==
    {ImportanceThreshold, ImportanceThreshold + 1, 2 * ImportanceThreshold}

\* model.feature_importances_ (line 646): one importance per feature.
ImportanceVectors(features) ==
    {imp \in [features -> ImportanceValues] :
        \A v \in ImportanceValues \ {ImportanceThreshold} :
            Cardinality({c \in features : imp[c] = v}) <= MaxTie}

\* The seed the estimator's generator starts from: random_state=1 (line 642).
\* entropy is what an estimator built without random_state would draw.
ForestSeed_Unseeded(entropy) == entropy

ForestSeed(entropy) == RandomState

\* Series.sort_values(ascending=False) (line 649): every order of the labels
\* S in which the importances never increase (equal importances come in an
\* order the sort does not promise).
RECURSIVE DescendingOrders(_, _)
DescendingOrders(S, imp) ==
    IF S = {} THEN {<<>>}
    ELSE UNION {{<<x>> \o rest : rest \in DescendingOrders(S \ {x}, imp)} :
                   x \in {y \in S : \A z \in S : imp[z] <= imp[y]}}

\* feature_importance[feature_importance > 0.001].index (line 652).
SelectedFeatures_AtLeast(order, imp) ==
    LET Important(c) == imp[c] >= ImportanceThreshold
    IN  SelectSeq(order, Important)

SelectedFeatures(order, imp) ==
    LET Important(c) == imp[c] > ImportanceThreshold
    IN  SelectSeq(order, Important)

\* pd.concat([df_encoded[selected_features], df_encoded[['SalePrice']]], axis=1)
\* (line 672).
FinalFrame(f, selected) ==
    LET columns == selected \o <<"SalePrice">>
    IN  [cols  |-> columns,
         index |-> f.index,
         dtype |-> [c \in Range(columns) |-> f.dtype[c]],
         cell  |-> [c \in Range(columns) |-> f.cell[c]]]

(***************************************************************************)
(* The cells of the Cleaner and of the Encoder in sequence, as functions   *)
(* of the frame: the frame they leave and the exception that ended them.   *)
(***************************************************************************)
\* Lines 200-288: column drop, dtypes, null columns, the two imputations.
CleanerOf(f) ==
    LET dropped == DropHighMissing(f)
    IN  IF ~HasCol(dropped, "Id") THEN [frame |-> dropped, exc |-> "KeyError"]
        ELSE LET d == DropCols(dropped, {"Id"})
                 cat == NullColumns(d, ObjectColumns(d))
                 num == NullColumns(d, NumberColumns(d))
             IN  [frame |-> FillMeanAll(FillModeAll(d, cat), num), exc |-> "none"]

\* Lines 565-600: ordinal encoder, get_dummies, label encoder, cast.
EncoderOf(f) ==
    LET ord == OrdinalEncodeAll(f, ord_enc_cols)
    IN  IF ord.exc # "none" THEN ord
        ELSE IF ~\A c \in Range(one_hot_enc_cols) : HasCol(ord.frame, c)
             THEN [frame |-> ord.frame, exc |-> "KeyError"]
        ELSE LET bin == LabelEncodeAll(GetDummies(ord.frame, one_hot_enc_cols),
                                       bin_enc_cols)
             IN  IF bin.exc # "none" THEN bin
                 ELSE IF ~AllCastable(bin.frame)
                      THEN [frame |-> bin.frame, exc |-> "ValueError"]
                 ELSE [frame |-> AstypeInt(bin.frame), exc |-> "none"]

(***************************************************************************)
(* Kernel level: the notebook as a program.  A statement reads names of    *)
(* the kernel's namespace (uses) and binds names (binds); reading a name   *)
(* that is not bound raises NameError.  op says what else the statement    *)
(* does:                                                                   *)
(*   "run"      nothing the model follows                                  *)
(*   "def"      defines function fam; its body runs when it is called      *)
(*   "split"    out = split_dataset(x, "SalePrice")                        *)
(*   "estimator" the estimator family fam searches with is constructed     *)
(*   "grid"     the grid search of family fam is fitted on (x, y)          *)
(*   "best"     best_params_ of the grid search of family fam is read      *)
(*   "construct" the final model of family fam is constructed              *)
(*   "fit"      the final model of family fam is fitted on (x, y)          *)
(*   "predict"  the final model of family fam predicts on x                *)
(*   "eval"     eval_metrics(x, y) for family fam                          *)
(* cell is the first line of the statement's cell.                         *)
(***************************************************************************)
Stmt(cell, op, uses, binds, fam, x, y, out) ==
    [cell |-> cell, op |-> op, uses |-> uses, binds |-> binds, fam |-> fam,
     x |-> x, y |-> y, out |-> out]

Run(cell, uses, binds) == Stmt(cell, "run", uses, binds, "", "", "", <<>>)

\* The names Python binds without any cell.
Builtins == {"print", "len", "enumerate", "range"}

Families == {"lr", "rf", "xgb", "cat"}

Metrics == {"MAE", "MSE", "RMSE", "R2"}

\* Lines 62-499: imports, loading, exploration, cleaning, plots, outliers.
CellsLoadAndClean ==
    << Run(62, {}, {"pd", "np", "plt", "sns", "zscore", "SimpleImputer",
                    "OrdinalEncoder", "LabelEncoder", "HashingEncoder",
                    "train_test_split", "GridSearchCV", "LogisticRegression",
                    "RandomForestRegressor", "xgb", "CatBoostRegressor"}),
       Run(92, {"pd"}, {"df"}),
       Run(92, {"df"}, {}),
       Run(110, {"df"}, {}),
       Run(120, {"df"}, {"rows", "cols"}),
       Run(120, {"print", "rows", "cols"}, {}),
       Run(131, {"df"}, {}),
       Run(141, {"df"}, {}),
       Run(158, {"df"}, {"cat_vars"}),
       Run(158, {"df", "cat_vars"}, {}),
       Run(183, {"df"}, {}),
       Run(200, {}, {"threshold"}),
       Run(200, {"df"}, {"missing_percentages"}),
       Run(200, {"missing_percentages", "threshold"}, {"columns_to_drop"}),
       Run(200, {"df", "columns_to_drop"}, {"df_dropped"}),
       Run(200, {"df_dropped"}, {"df_dropped"}),
       Run(200, {"df_dropped"}, {}),
       Run(224, {"df_dropped"}, {"cat_columns"}),
       Run(224, {"df_dropped", "np"}, {"num_columns"}),
       Run(224, {"print", "len", "cat_columns"}, {}),
       Run(224, {"print", "len", "num_columns"}, {}),
       Run(238, {"cat_columns", "df_dropped"}, {"cat_null_columns"}),
       Run(238, {"num_columns", "df_dropped"}, {"num_null_columns"}),
       Run(238, {"print", "len", "cat_null_columns"}, {}),
       Run(238, {"print", "len", "num_null_columns"}, {}),
       Run(264, {"SimpleImputer"}, {"most_freq_imp"}),
       Run(264, {"cat_null_columns", "df_dropped", "most_freq_imp"}, {}),
       Run(276, {"df_dropped"}, {}),
       Run(286, {"num_null_columns", "df_dropped"}, {}),
       Run(297, {"df_dropped"}, {"still_null"}),
       Run(297, {"print", "still_null"}, {}),
       Run(322, {"plt"}, {"fig"}),
       Run(322, {"enumerate", "num_columns", "plt", "df_dropped"}, {}),
       Run(322, {"fig", "plt"}, {}),
       Run(353, {"plt"}, {"fig"}),
       Run(353, {"enumerate", "cat_columns", "plt", "df_dropped"}, {}),
       Run(353, {"fig", "plt"}, {}),
       Run(384, {"plt", "sns", "df_dropped", "num_columns"}, {}),
       Run(417, {"df_dropped"}, {"df_clean"}),
       Run(426, {"plt"}, {"fig"}),
       Run(426, {"enumerate", "num_columns", "plt", "sns", "df_clean"}, {}),
       Run(426, {"fig", "plt"}, {}),
       Run(457, {}, {}),
       Run(483, {}, {}),
       Run(499, {"df_clean"}, {}) >>

\* Lines 515-673: encoding and feature selection.
CellsEncodeAndSelect ==
    << Run(515, {"cat_columns"}, {}),
       Run(532, {}, {"ord_enc_cols"}),
       Run(532, {}, {"one_hot_enc_cols"}),
       Run(532, {}, {"bin_enc_cols"}),
       Run(554, {"OrdinalEncoder"}, {"ord_enc"}),
       Run(554, {"LabelEncoder"}, {"bin_enc"}),
       Run(565, {"ord_enc_cols", "df_clean", "ord_enc"}, {}),
       Run(565, {"df_clean"}, {}),
       Run(578, {"pd", "df_clean", "one_hot_enc_cols"}, {"df_clean"}),
       Run(588, {"bin_enc_cols", "df_clean", "bin_enc"}, {}),
       Run(599, {"df_clean"}, {"df_clean"}),
       Run(609, {"df_clean"}, {"df_encoded"}),
       Run(609, {"df_encoded"}, {}),
       Run(619, {"df_encoded"}, {}),
       Run(642, {"RandomForestRegressor"}, {"model"}),
       Run(642, {"model", "df_encoded"}, {}),
       Run(642, {"model"}, {"importance"}),
       Run(642, {"pd", "importance", "df_encoded"}, {"feature_importance"}),
       Run(642, {"feature_importance"}, {"selected_features"}),
       Run(661, {"selected_features"}, {}),
       Run(671, {"pd", "df_encoded", "selected_features"}, {"df_final"}),
       Run(671, {"df_final"}, {}) >>

\* The statements of one of the three families tuned on the split of
\* df_final: the grid-search cell at line a built from estimator class cls,
\* the display of the best parameters at line b, the final model at line c.
CellsOfFamily(fam, cls, a, b, c) ==
    LET n(base) == base \o "_" \o fam
    IN  << Run(a, {}, {n("param_grid")}),
           Stmt(a, "estimator", {cls}, {n("estimator")}, fam, "", "", <<>>),
           Run(a, {"GridSearchCV", n("estimator"), n("param_grid")}, {n("grid_search")}),
           Stmt(a, "grid", {n("grid_search"), "X_train", "y_train"}, {}, fam,
                "X_train", "y_train", <<>>),
           Stmt(a, "best", {n("grid_search")}, {n("best_params")}, fam, "", "", <<>>),
           Run(b, {n("best_params")}, {}),
           Stmt(c, "construct", {cls, n("best_params")}, {"best_" \o fam \o "_model"},
                fam, "", "", <<>>),
           Stmt(c, "fit", {"best_" \o fam \o "_model", "X_train", "y_train"}, {}, fam,
                "X_train", "y_train", <<>>) >>

\* Lines 696-981: the split of df_final, logistic regression, random
\* forest, XGBoost, their predictions and evaluations.
CellsTrainAndEvaluate ==
    << Stmt(696, "def", {}, {"split_dataset"}, "split_dataset", "", "", <<>>),
       Stmt(710, "split", {"split_dataset", "df_final"},
            {"X_train", "X_test", "y_train", "y_test"}, "", "df_final", "",
            <<"X_train", "X_test", "y_train", "y_test">>) >>
    \o CellsOfFamily("lr", "LogisticRegression", 743, 765, 775)
    \o CellsOfFamily("rf", "RandomForestRegressor", 795, 821, 831)
    \o CellsOfFamily("xgb", "xgb", 851, 879, 889)
    \o
    << Stmt(909, "predict", {"best_lr_model", "X_test"}, {"lr_pred"}, "lr",
            "X_test", "", <<"lr_pred">>),
       Stmt(909, "predict", {"best_rf_model", "X_test"}, {"rf_pred"}, "rf",
            "X_test", "", <<"rf_pred">>),
       Stmt(909, "predict", {"best_xgb_model", "X_test"}, {"xgb_pred"}, "xgb",
            "X_test", "", <<"xgb_pred">>),
       Stmt(932, "def", {}, {"eval_metrics"}, "eval_metrics", "", "", <<>>),
       Run(957, {"print"}, {}),
       Stmt(957, "eval", {"eval_metrics", "y_test", "lr_pred"}, {}, "lr",
            "y_test", "lr_pred", <<>>),
       Run(968, {"print"}, {}),
       Stmt(968, "eval", {"eval_metrics", "y_test", "rf_pred"}, {}, "rf",
            "y_test", "rf_pred", <<>>),
       Run(979, {"print"}, {}),
       Stmt(979, "eval", {"eval_metrics", "y_test", "xgb_pred"}, {}, "xgb",
            "y_test", "xgb_pred", <<>>) >>

\* The frame the CatBoost cells split (line 1015).
CatBoostFrame_Final == "df_final"

CatBoostFrame == "df_dropped"

\* Lines 1004-1095: CatBoost on a split of df_dropped.
CellsCatBoost ==
    << Run(1004, {"df_dropped"}, {}),
       Stmt(1014, "split", {"split_dataset", CatBoostFrame},
            {"X_train_01", "X_test_01", "y_train_01", "y_test_01"}, "",
            CatBoostFrame, "",
            <<"X_train_01", "X_test_01", "y_train_01", "y_test_01">>),
       Run(1024, {"np", "X_train_01"}, {"categorical_features_indices"}),
       Run(1034, {}, {"param_grid_cat"}),
       Stmt(1034, "estimator", {"CatBoostRegressor", "categorical_features_indices"},
            {"estimator_cat"}, "cat", "", "", <<>>),
       Run(1034, {"GridSearchCV", "estimator_cat", "param_grid_cat"},
           {"grid_search_cat"}),
       Stmt(1034, "grid", {"grid_search_cat", "X_train_01", "y_train_01"}, {}, "cat",
            "X_train_01", "y_train_01", <<>>),
       Stmt(1034, "best", {"grid_search_cat"}, {"best_params_cat"}, "cat", "", "",
            <<>>),
       Run(1060, {"best_params_cat"}, {}),
       Stmt(1070, "construct", {"CatBoostRegressor", "best_params_cat",
                                "categorical_features_indices"}, {"best_cat_model"},
            "cat", "", "", <<>>),
       Stmt(1070, "fit", {"best_cat_model", "X_train_01", "y_train_01"}, {}, "cat",
            "X_train_01", "y_train_01", <<>>),
       Stmt(1083, "predict", {"best_cat_model", "X_test_01"}, {"cat_pred"}, "cat",
            "X_test_01", "", <<"cat_pred">>),
       Run(1093, {"print"}, {}),
       Stmt(1093, "eval", {"eval_metrics", "y_test_01", "cat_pred"}, {}, "cat",
            "y_test_01", "cat_pred", <<>>) >>

Program ==
    CellsLoadAndClean \o CellsEncodeAndSelect \o CellsTrainAndEvaluate
        \o CellsCatBoost

\* The global names the body of a function reads, statement by statement,
\* and the metric a statement of the body prints ("" for none).
\* split_dataset: lines 697-701.  eval_metrics: lines 933-948.
Body(fn) ==
    IF fn = "split_dataset"
    THEN << [uses |-> {}, prints |-> ""],
            [uses |-> {}, prints |-> ""],
            [uses |-> {"train_test_split"}, prints |-> ""] >>
    ELSE << [uses |-> {"mean_absolute_error"}, prints |-> ""],
            [uses |-> {"print"}, prints |-> "MAE"],
            [uses |-> {"mean_squared_error"}, prints |-> ""],
            [uses |-> {"print"}, prints |-> "MSE"],
            [uses |-> {"sqrt"}, prints |-> ""],
            [uses |-> {"print"}, prints |-> "RMSE"],
            [uses |-> {"r2_score"}, prints |-> ""],
            [uses |-> {"print"}, prints |-> "R2"] >>

\* Running a body with the names bound: what it printed, and whether it ran
\* to its end or stopped at a name that is not bound.
RECURSIVE RunBody(_, _)
RunBody(body, bound) ==
    IF body = <<>> THEN [printed |-> {}, exc |-> "none"]
    ELSE IF ~(Head(body).uses \subseteq bound)
         THEN [printed |-> {}, exc |-> "NameError"]
    ELSE LET rest == RunBody(Tail(body), bound)
         IN  [printed |-> rest.printed \cup ({Head(body).prints} \ {""}),
              exc |-> rest.exc]

(***************************************************************************)
(* train_test_split(features, target, test_size=0.2) (line 700).           *)
(***************************************************************************)
\* test_size = 0.2 (line 700), as the fraction TestSizeNum / TestSizeDen.
TestSizeNum == 1

TestSizeDen == 5

\* n_test = ceil(test_size * n_samples).  The product of the double 0.2 and
\* n is n/5 exactly when 5 divides n and is nowhere near an integer
\* otherwise, so the ceiling is that of the fraction.
TestRows(n) == (n * TestSizeNum + TestSizeDen - 1) \div TestSizeDen

\* A piece of a frame: the rows of frame it holds and whether it holds the
\* feature columns ("X"), the target ("y") or predictions for the rows ("pred").
Data(frame, rows, part) == [frame |-> frame, rows |-> rows, part |-> part]

NoData == Data("", {}, "")

\* What the split of the n rows of frame may return: one shuffle picks the
\* test rows, and features and target are both indexed by it.
SplitOutcomes_Independent(frame, n) ==
    {<<Data(frame, (1..n) \ tx, "X"), Data(frame, tx, "X"),
       Data(frame, (1..n) \ ty, "y"), Data(frame, ty, "y")>> :
        <<tx, ty>> \in {p \in (SUBSET (1..n)) \X (SUBSET (1..n)) :
                          /\ Cardinality(p[1]) = TestRows(n)
                          /\ Cardinality(p[2]) = TestRows(n)}}

SplitOutcomes(frame, n) ==
    {<<Data(frame, (1..n) \ t, "X"), Data(frame, t, "X"),
       Data(frame, (1..n) \ t, "y"), Data(frame, t, "y")>> :
        t \in {u \in SUBSET (1..n) : Cardinality(u) = TestRows(n)}}

\* train_test_split raises ValueError when the train part would be empty.
SplitFails(n) == n - TestRows(n) <= 0

(***************************************************************************)
(* Estimators: the keyword arguments of the constructors.  A parameter     *)
(* combination of a grid is a number 1..MaxGrid; 0 stands for no           *)
(* combination.                                                            *)
(***************************************************************************)
\* The keyword arguments other than tuned parameters the searched estimator
\* is constructed with (lines 747, 803, 861, 1042).
EstimatorSettings(fam) ==
    CASE fam = "lr" -> {<<"solver", "liblinear">>}
      [] fam = "rf" -> {}
      [] fam = "xgb" -> {}
      [] fam = "cat" -> {<<"loss_function", "RMSE">>,
                         <<"cat_features", "categorical_features_indices">>}

\* The keyword arguments other than **best_params the final model is
\* constructed with (lines 776, 832, 890, 1071).
FinalSettings(fam) ==
    CASE fam = "lr" -> {}
      [] fam = "rf" -> {}
      [] fam = "xgb" -> {}
      [] fam = "cat" -> {<<"cat_features", "categorical_features_indices">>}

\* The tuned parameters Cls(**best_params) sets, best_params being
\* combination best.
FinalParams_Defaults(best) == 0

FinalParams(best) == best

\* No cell wraps a statement in try/except: an exception ends the cell.
StmtCatches_TryExcept(s) == s.op \in {"grid", "fit", "predict"}

StmtCatches(s) == FALSE

(***************************************************************************)
(* State.                                                                  *)
(***************************************************************************)
VARIABLES
    \* data level
    stage,              \* the data cell to run next
    exc,                \* the exception that ended the data run, or "none"
    df,                 \* line 93
    df_dropped,         \* lines 210, 213, 267, 288
    cat_columns,        \* line 225
    num_columns,        \* line 226
    cat_null_columns,   \* line 239
    num_null_columns,   \* line 240
    still_null,         \* line 298
    df_clean,           \* lines 417, 567, 579, 590, 600
    df_encoded,         \* line 609
    forest,             \* what a forest seeded s computes on df_encoded, per seed s
    importance,         \* model.feature_importances_ by feature (line 646)
    selected_features,  \* line 652
    selection_runs,     \* how often the selection cell has run
    prev_selected,      \* the columns the previous run of the cell selected
    df_final,           \* line 672
    \* kernel level
    pc,                 \* the statement of Program to run next (0: no kernel)
    mode,               \* "run_all", or "interactive": cell after cell by hand
    halted,             \* Run All has stopped at a cell that raised
    names,              \* the names bound in the kernel's namespace
    errors,             \* the exceptions raised so far, with their statement
    failures,           \* how many exceptions the libraries have raised
    nrows,              \* the number of rows of data.csv
    env,                \* the train/test parts and predictions by name
    grid_fit,           \* per family, what its grid search was fitted on
    final_fit,          \* per family, what its final model was fitted on
    eval_args,          \* per family, what eval_metrics was called with
    printed,            \* per family, the metrics eval_metrics printed
    tuning,             \* per family, the searched estimator and the best combination
    model,              \* per family, the arguments of the final model
    \* two runs side by side
    pair                \* two runs on inputs that differ in one cell

dataVars ==
    <<stage, exc, df, df_dropped, cat_columns, num_columns, cat_null_columns,
      num_null_columns, still_null, df_clean, df_encoded, forest, importance,
      selected_features, selection_runs, prev_selected, df_final>>

kernelVars ==
    <<pc, mode, halted, names, errors, failures, nrows, env, grid_fit,
      final_fit, eval_args, printed, tuning, model>>

tuneVars == <<tuning, model>>

pairVars == <<pair>>

vars == <<dataVars, kernelVars, pairVars>>

\* The largest data.csv of the kernel level, in rows.
MaxRows == 6

\* How many exceptions the libraries raise in one run, at most.
MaxFailures == 1

\* How many parameter combinations of a grid the model tells apart.
MaxGrid == 2

\* The names the model follows the values of.
DataNames ==
    {"X_train", "X_test", "y_train", "y_test", "lr_pred", "rf_pred", "xgb_pred",
     "X_train_01", "X_test_01", "y_train_01", "y_test_01", "cat_pred"}

NoFit == [x |-> NoData, y |-> NoData]

NoEstimator == {<<"", "">>}

\* Nothing of a family's tuning has run: no estimator, no best combination
\* found by the search (found), none bound to best_params (best_params).
NoTuning == [searched |-> NoEstimator, found |-> 0, best_params |-> 0]

NoModel == [params |-> 0, settings |-> NoEstimator]

\* A fresh kernel about to run statement start on a data.csv of n rows.
KernelStart(start, m, n) ==
    /\ pc = start
    /\ mode = m
    /\ halted = FALSE
    /\ names = Builtins
    /\ errors = {}
    /\ failures = 0
    /\ nrows = n
    /\ env = [d \in DataNames |-> NoData]
    /\ grid_fit = [f \in Families |-> NoFit]
    /\ final_fit = [f \in Families |-> NoFit]
    /\ eval_args = [f \in Families |-> NoFit]
    /\ printed = [f \in Families |-> {}]
    /\ tuning = [f \in Families |-> NoTuning]
    /\ model = [f \in Families |-> NoModel]

\* The notebook's data variables before the first cleaning cell has run.
DataStart(first, frame) ==
    /\ stage = first
    /\ exc = "none"
    /\ df = frame
    /\ df_dropped = NoFrame
    /\ cat_columns = <<>>
    /\ num_columns = <<>>
    /\ cat_null_columns = <<>>
    /\ num_null_columns = <<>>
    /\ still_null = 0
    /\ df_clean = NoFrame
    /\ df_encoded = NoFrame
    /\ forest = <<>>
    /\ importance = <<>>
    /\ selected_features = <<>>
    /\ selection_runs = 0
    /\ prev_selected = {}
    /\ df_final = NoFrame

\* One run of the cleaning and encoding cells on frame f, before its first
\* cell.
NewRun(f) ==
    [input |-> f, cleaned |-> NoFrame, encoded |-> NoFrame, exc |-> "none"]

NoPair == [stage |-> "off", row |-> 0, a |-> NewRun(NoFrame), b |-> NewRun(NoFrame)]

InitPrep ==
    /\ \E frame \in RawFrames : DataStart("drop", frame)
    /\ KernelStart(0, "run_all", 0)
    /\ pair = NoPair

(***************************************************************************)
(* Data-level actions: one per cell.  A cell that raises leaves stage at   *)
(* itself and records the exception; no later cell runs.                   *)
(***************************************************************************)
Running(s) == stage = s /\ exc = "none"

\* Lines 200-215.  df_dropped is assigned twice; the second drop raises
\* KeyError when the frame holds no column 'Id'.
DropColumnsCell ==
    /\ Running("drop")
    /\ LET dropped == DropHighMissing(df)
       IN  IF HasCol(dropped, "Id")
           THEN /\ df_dropped' = DropCols(dropped, {"Id"})
                /\ stage' = "dtypes"
                /\ exc' = exc
           ELSE /\ df_dropped' = dropped
                /\ stage' = stage
                /\ exc' = "KeyError"
    /\ UNCHANGED <<df, cat_columns, num_columns, cat_null_columns, num_null_columns,
                   still_null, df_clean, df_encoded, forest, importance,
                   selected_features, selection_runs, prev_selected, df_final>>
    /\ UNCHANGED <<kernelVars, pairVars>>

\* Lines 224-229.
DtypesCell ==
    /\ Running("dtypes")
    /\ cat_columns' = ObjectColumns(df_dropped)
    /\ num_columns' = NumberColumns(df_dropped)
    /\ stage' = "nulls"
    /\ UNCHANGED <<exc, df, df_dropped, cat_null_columns, num_null_columns,
                   still_null, df_clean, df_encoded, forest, importance,
                   selected_features, selection_runs, prev_selected, df_final>>
    /\ UNCHANGED <<kernelVars, pairVars>>

\* Lines 238-246.
NullColumnsCell ==
    /\ Running("nulls")
    /\ cat_null_columns' = NullColumns(df_dropped, cat_columns)
    /\ num_null_columns' = NullColumns(df_dropped, num_columns)
    /\ stage' = "mode"
    /\ UNCHANGED <<exc, df, df_dropped, cat_columns, num_columns,
                   still_null, df_clean, df_encoded, forest, importance,
                   selected_features, selection_runs, prev_selected, df_final>>
    /\ UNCHANGED <<kernelVars, pairVars>>

\* Lines 264-267.
ModeImputeCell ==
    /\ Running("mode")
    /\ df_dropped' = FillModeAll(df_dropped, cat_null_columns)
    /\ stage' = "mean"
    /\ UNCHANGED <<exc, df, cat_columns, num_columns, cat_null_columns,
                   num_null_columns, still_null, df_clean, df_encoded, forest,
                   importance, selected_features, selection_runs, prev_selected,
                   df_final>>
    /\ UNCHANGED <<kernelVars, pairVars>>

\* Lines 286-288.
MeanImputeCell ==
    /\ Running("mean")
    /\ df_dropped' = FillMeanAll(df_dropped, num_null_columns)
    /\ stage' = "still_null"
    /\ UNCHANGED <<exc, df, cat_columns, num_columns, cat_null_columns,
                   num_null_columns, still_null, df_clean, df_encoded, forest,
                   importance, selected_features, selection_runs, prev_selected,
                   df_final>>
    /\ UNCHANGED <<kernelVars, pairVars>>

\* Lines 297-299.
StillNullCell ==
    /\ Running("still_null")
    /\ still_null' = StillNull(df_dropped)
    /\ stage' = "copy"
    /\ UNCHANGED <<exc, df, df_dropped, cat_columns, num_columns, cat_null_columns,
                   num_null_columns, df_clean, df_encoded, forest, importance,
                   selected_features, selection_runs, prev_selected, df_final>>
    /\ UNCHANGED <<kernelVars, pairVars>>

\* Line 417: df_clean = df_dropped.copy().
CopyCell ==
    /\ Running("copy")
    /\ df_clean' = df_dropped
    /\ stage' = "iqr"
    /\ UNCHANGED <<exc, df, df_dropped, cat_columns, num_columns, cat_null_columns,
                   num_null_columns, still_null, df_encoded, forest, importance,
                   selected_features, selection_runs, prev_selected, df_final>>
    /\ UNCHANGED <<kernelVars, pairVars>>

\* Lines 457-467.
OutlierIQRCell ==
    /\ Running("iqr")
    /\ df_clean' = IQRCell(df_clean, num_columns)
    /\ stage' = "zscore"
    /\ UNCHANGED <<exc, df, df_dropped, cat_columns, num_columns, cat_null_columns,
                   num_null_columns, still_null, df_encoded, forest, importance,
                   selected_features, selection_runs, prev_selected, df_final>>
    /\ UNCHANGED <<kernelVars, pairVars>>

\* Lines 483-490.
OutlierZScoreCell ==
    /\ Running("zscore")
    /\ df_clean' = ZScoreCell(df_clean, num_columns)
    /\ stage' = "ordinal"
    /\ UNCHANGED <<exc, df, df_dropped, cat_columns, num_columns, cat_null_columns,
                   num_null_columns, still_null, df_encoded, forest, importance,
                   selected_features, selection_runs, prev_selected, df_final>>
    /\ UNCHANGED <<kernelVars, pairVars>>

\* Lines 565-569.
OrdinalEncodeCell ==
    /\ Running("ordinal")
    /\ LET out == OrdinalEncodeAll(df_clean, ord_enc_cols)
       IN  /\ df_clean' = out.frame
           /\ exc' = out.exc
           /\ stage' = IF out.exc = "none" THEN "dummies" ELSE stage
    /\ UNCHANGED <<df, df_dropped, cat_columns, num_columns, cat_null_columns,
                   num_null_columns, still_null, df_encoded, forest, importance,
                   selected_features, selection_runs, prev_selected, df_final>>
    /\ UNCHANGED <<kernelVars, pairVars>>

\* Lines 578-579.  Selecting the columns to encode raises KeyError when one
\* of them is not in the frame.
GetDummiesCell ==
    /\ Running("dummies")
    /\ IF \A c \in Range(one_hot_enc_cols) : HasCol(df_clean, c)
       THEN /\ df_clean' = GetDummies(df_clean, one_hot_enc_cols)
            /\ stage' = "label"
            /\ exc' = exc
       ELSE /\ df_clean' = df_clean
            /\ stage' = stage
            /\ exc' = "KeyError"
    /\ UNCHANGED <<df, df_dropped, cat_columns, num_columns, cat_null_columns,
                   num_null_columns, still_null, df_encoded, forest, importance,
                   selected_features, selection_runs, prev_selected, df_final>>
    /\ UNCHANGED <<kernelVars, pairVars>>

\* Lines 588-590.
LabelEncodeCell ==
    /\ Running("label")
    /\ LET out == LabelEncodeAll(df_clean, bin_enc_cols)
       IN  /\ df_clean' = out.frame
           /\ exc' = out.exc
           /\ stage' = IF out.exc = "none" THEN "astype" ELSE stage
    /\ UNCHANGED <<df, df_dropped, cat_columns, num_columns, cat_null_columns,
                   num_null_columns, still_null, df_encoded, forest, importance,
                   selected_features, selection_runs, prev_selected, df_final>>
    /\ UNCHANGED <<kernelVars, pairVars>>

\* Lines 599-600.
AstypeIntCell ==
    /\ Running("astype")
    /\ IF AllCastable(df_clean)
       THEN /\ df_clean' = AstypeInt(df_clean)
            /\ stage' = "encoded"
            /\ exc' = exc
       ELSE /\ df_clean' = df_clean
            /\ stage' = stage
            /\ exc' = "ValueError"
    /\ UNCHANGED <<df, df_dropped, cat_columns, num_columns, cat_null_columns,
                   num_null_columns, still_null, df_encoded, forest, importance,
                   selected_features, selection_runs, prev_selected, df_final>>
    /\ UNCHANGED <<kernelVars, pairVars>>

\* Lines 609-610: df_encoded = df_clean.copy().
EncodedCopyCell ==
    /\ Running("encoded")
    /\ df_encoded' = df_clean
    /\ stage' = "select"
    /\ UNCHANGED <<exc, df, df_dropped, cat_columns, num_columns, cat_null_columns,
                   num_null_columns, still_null, df_clean, forest, importance,
                   selected_features, selection_runs, prev_selected, df_final>>
    /\ UNCHANGED <<kernelVars, pairVars>>

\* The body of the selection cell, lines 642-652, on a frame that holds
\* 'SalePrice': a forest is built and fitted, its importances are sorted and
\* the features above the threshold are kept.  A forest seeded s computes the
\* same importances on the same frame every time it is fitted.
RunSelection ==
    \E entropy \in 1..NSeeds :
        LET seed == ForestSeed(entropy)
            features == Range(Features(df_encoded))
            computed == IF seed \in DOMAIN forest THEN {forest[seed]}
                        ELSE ImportanceVectors(features)
        IN  \E imp \in computed :
            \E order \in DescendingOrders(features, imp) :
                /\ forest' = [s \in DOMAIN forest \cup {seed} |->
                                 IF s = seed THEN imp ELSE forest[s]]
                /\ importance' = imp
                /\ selected_features' = SelectedFeatures(order, imp)
                /\ prev_selected' = Range(selected_features)
                /\ selection_runs' = selection_runs + 1

\* Lines 642-652.  Dropping 'SalePrice' raises KeyError when the encoded
\* frame does not hold it.
FeatureSelectionCell ==
    /\ Running("select")
    /\ IF HasCol(df_encoded, "SalePrice")
       THEN /\ RunSelection
            /\ stage' = "final"
            /\ exc' = exc
       ELSE /\ exc' = "KeyError"
            /\ UNCHANGED <<stage, forest, importance, selected_features,
                           selection_runs, prev_selected>>
    /\ UNCHANGED <<df, df_dropped, cat_columns, num_columns, cat_null_columns,
                   num_null_columns, still_null, df_clean, df_encoded, df_final>>
    /\ UNCHANGED <<kernelVars, pairVars>>

\* The selection cell run once more on the same df_encoded.
MaxSelectionRuns == 2

ReRunFeatureSelectionCell ==
    /\ Running("final")
    /\ selection_runs < MaxSelectionRuns
    /\ RunSelection
    /\ UNCHANGED <<stage, exc, df, df_dropped, cat_columns, num_columns,
                   cat_null_columns, num_null_columns, still_null, df_clean,
                   df_encoded, df_final>>
    /\ UNCHANGED <<kernelVars, pairVars>>

\* Lines 671-673.
FinalFrameCell ==
    /\ Running("final")
    /\ df_final' = FinalFrame(df_encoded, selected_features)
    /\ stage' = "done"
    /\ UNCHANGED <<exc, df, df_dropped, cat_columns, num_columns, cat_null_columns,
                   num_null_columns, still_null, df_clean, df_encoded, forest,
                   importance, selected_features, selection_runs, prev_selected>>
    /\ UNCHANGED <<kernelVars, pairVars>>

NextPrep ==
    \/ DropColumnsCell
    \/ DtypesCell
    \/ NullColumnsCell
    \/ ModeImputeCell
    \/ MeanImputeCell
    \/ StillNullCell
    \/ CopyCell
    \/ OutlierIQRCell
    \/ OutlierZScoreCell
    \/ OrdinalEncodeCell
    \/ GetDummiesCell
    \/ LabelEncodeCell
    \/ AstypeIntCell
    \/ EncodedCopyCell
    \/ FeatureSelectionCell
    \/ ReRunFeatureSelectionCell
    \/ FinalFrameCell

SpecPrep == InitPrep /\ [][NextPrep]_vars

(***************************************************************************)
(* The post-imputation check (line 298) as a function of the frame: the    *)
(* cell applied to frames that still hold missing cells, as when it is run *)
(* by hand before the imputation cells.                                    *)
(***************************************************************************)
StillNullCellByHand ==
    /\ stage \in {"mode", "mean"}
    /\ exc = "none"
    /\ still_null' = StillNull(df_dropped)
    /\ stage' = "checked"
    /\ UNCHANGED <<exc, df, df_dropped, cat_columns, num_columns, cat_null_columns,
                   num_null_columns, df_clean, df_encoded, forest, importance,
                   selected_features, selection_runs, prev_selected, df_final>>
    /\ UNCHANGED <<kernelVars, pairVars>>

NextCheck ==
    \/ DropColumnsCell
    \/ DtypesCell
    \/ NullColumnsCell
    \/ ModeImputeCell
    \/ StillNullCellByHand

SpecCheck == InitPrep /\ [][NextCheck]_vars

(***************************************************************************)
(* Kernel-level actions: one per kind of statement.  The kernel runs the   *)
(* statements of a cell in order; a statement that raises ends its cell.   *)
(* Under Run All no later cell runs; a user who runs the cells by hand     *)
(* goes on with the next cell.                                             *)
(***************************************************************************)
Init ==
    /\ DataStart("off", NoFrame)
    /\ \E m \in {"run_all", "interactive"} :
           \E n \in 1..MaxRows : KernelStart(1, m, n)
    /\ pair = NoPair

AtStatement == pc \in 1..Len(Program) /\ ~halted

\* The first statement of the cell after the cell of statement i.
NextCell(i) ==
    LET later == {j \in (i + 1)..Len(Program) : Program[j].cell # Program[i].cell}
    IN  IF later = {} THEN Len(Program) + 1
        ELSE CHOOSE j \in later : \A k \in later : j <= k

\* The statement at pc raises e.
Raise(e) ==
    /\ errors' = errors \cup {[stmt |-> pc, cell |-> Program[pc].cell, exc |-> e]}
    /\ IF StmtCatches(Program[pc])
       THEN pc' = pc + 1 /\ halted' = halted
       ELSE IF mode = "run_all"
            THEN pc' = pc /\ halted' = TRUE
            ELSE pc' = NextCell(pc) /\ halted' = halted

\* The statement at pc ends normally.
Return ==
    /\ pc' = pc + 1
    /\ names' = names \cup Program[pc].binds
    /\ UNCHANGED <<halted, errors>>

Bound(s) == s.uses \subseteq names

\* A statement that reads a name no cell has bound.
NameErrorStatement ==
    /\ AtStatement
    /\ ~Bound(Program[pc])
    /\ Raise("NameError")
    /\ UNCHANGED <<dataVars, pairVars, tuneVars, mode, names, failures, nrows, env, grid_fit,
                   final_fit, eval_args, printed>>

\* An import, an assignment, a display, a plot, a def.
PlainStatement ==
    /\ AtStatement
    /\ Program[pc].op \in {"run", "def"}
    /\ Bound(Program[pc])
    /\ Return
    /\ UNCHANGED <<dataVars, pairVars, tuneVars, mode, failures, nrows, env, grid_fit, final_fit,
                   eval_args, printed>>

\* Lines 711 and 1015: a call of split_dataset that returns.
SplitStatement ==
    /\ AtStatement
    /\ Program[pc].op = "split"
    /\ Bound(Program[pc])
    /\ RunBody(Body("split_dataset"), names).exc = "none"
    /\ ~SplitFails(nrows)
    /\ \E parts \in SplitOutcomes(Program[pc].x, nrows) :
           env' = [d \in DataNames |->
                     IF \E k \in 1..4 : Program[pc].out[k] = d
                     THEN parts[CHOOSE k \in 1..4 : Program[pc].out[k] = d]
                     ELSE env[d]]
    /\ Return
    /\ UNCHANGED <<dataVars, pairVars, tuneVars, mode, failures, nrows, grid_fit, final_fit,
                   eval_args, printed>>

\* Lines 711 and 1015: a call of split_dataset that raises.
SplitRaises ==
    /\ AtStatement
    /\ Program[pc].op = "split"
    /\ Bound(Program[pc])
    /\ LET body == RunBody(Body("split_dataset"), names)
       IN  IF body.exc # "none" THEN Raise(body.exc)
           ELSE SplitFails(nrows) /\ Raise("ValueError")
    /\ UNCHANGED <<dataVars, pairVars, tuneVars, mode, names, failures, nrows, env, grid_fit,
                   final_fit, eval_args, printed>>

\* Lines 753, 809, 867, 1048: grid_search.fit(x, y).
GridSearchStatement ==
    /\ AtStatement
    /\ Program[pc].op = "grid"
    /\ Bound(Program[pc])
    /\ grid_fit' = [grid_fit EXCEPT ![Program[pc].fam] =
                        [x |-> env[Program[pc].x], y |-> env[Program[pc].y]]]
    /\ \E best \in 1..MaxGrid :
           tuning' = [tuning EXCEPT ![Program[pc].fam].found = best]
    /\ Return
    /\ UNCHANGED <<dataVars, pairVars, model, mode, failures, nrows, env, final_fit,
                   eval_args, printed>>

\* Lines 747, 803, 861, 1042: estimator = Cls(...).
EstimatorStatement ==
    /\ AtStatement
    /\ Program[pc].op = "estimator"
    /\ Bound(Program[pc])
    /\ tuning' = [tuning EXCEPT ![Program[pc].fam].searched =
                      EstimatorSettings(Program[pc].fam)]
    /\ Return
    /\ UNCHANGED <<dataVars, pairVars, model, mode, failures, nrows, env, grid_fit,
                   final_fit, eval_args, printed>>

\* Lines 756, 812, 870, 1051: best_params = grid_search.best_params_.
BestParamsStatement ==
    /\ AtStatement
    /\ Program[pc].op = "best"
    /\ Bound(Program[pc])
    /\ tuning' = [tuning EXCEPT ![Program[pc].fam].best_params =
                      tuning[Program[pc].fam].found]
    /\ Return
    /\ UNCHANGED <<dataVars, pairVars, model, mode, failures, nrows, env, grid_fit,
                   final_fit, eval_args, printed>>

\* Lines 776, 832, 890, 1071: best_model = Cls(**best_params, ...).
ConstructStatement ==
    /\ AtStatement
    /\ Program[pc].op = "construct"
    /\ Bound(Program[pc])
    /\ model' = [model EXCEPT ![Program[pc].fam] =
                     [params |-> FinalParams(tuning[Program[pc].fam].best_params),
                      settings |-> FinalSettings(Program[pc].fam)]]
    /\ Return
    /\ UNCHANGED <<dataVars, pairVars, tuning, mode, failures, nrows, env, grid_fit,
                   final_fit, eval_args, printed>>

\* Lines 779, 835, 893, 1074: best_model.fit(x, y).
FitStatement ==
    /\ AtStatement
    /\ Program[pc].op = "fit"
    /\ Bound(Program[pc])
    /\ final_fit' = [final_fit EXCEPT ![Program[pc].fam] =
                        [x |-> env[Program[pc].x], y |-> env[Program[pc].y]]]
    /\ Return
    /\ UNCHANGED <<dataVars, pairVars, tuneVars, mode, failures, nrows, env, grid_fit, eval_args,
                   printed>>

\* Lines 910, 913, 916, 1084: pred = best_model.predict(x), one prediction
\* per row of x.
PredictStatement ==
    /\ AtStatement
    /\ Program[pc].op = "predict"
    /\ Bound(Program[pc])
    /\ final_fit[Program[pc].fam] # NoFit
    /\ env' = [env EXCEPT ![Program[pc].out[1]] =
                  Data(env[Program[pc].x].frame, env[Program[pc].x].rows, "pred")]
    /\ Return
    /\ UNCHANGED <<dataVars, pairVars, tuneVars, mode, failures, nrows, grid_fit, final_fit,
                   eval_args, printed>>

\* predict on a model whose fit raised: sklearn's NotFittedError.
PredictUnfitted ==
    /\ AtStatement
    /\ Program[pc].op = "predict"
    /\ Bound(Program[pc])
    /\ final_fit[Program[pc].fam] = NoFit
    /\ Raise("NotFittedError")
    /\ UNCHANGED <<dataVars, pairVars, tuneVars, mode, names, failures, nrows, env, grid_fit,
                   final_fit, eval_args, printed>>

\* A library raises while tuning, fitting or predicting (too few rows for
\* the folds, a target the estimator refuses, no memory, ...).
LibraryRaises ==
    /\ AtStatement
    /\ Program[pc].op \in {"grid", "fit", "predict"}
    /\ Bound(Program[pc])
    /\ failures < MaxFailures
    /\ failures' = failures + 1
    /\ Raise("LibraryError")
    /\ UNCHANGED <<dataVars, pairVars, tuneVars, mode, names, nrows, env, grid_fit, final_fit,
                   eval_args, printed>>

\* Lines 959, 970, 981, 1095: eval_metrics(y, pred).  The body runs with
\* the names bound at the call.
EvalStatement ==
    /\ AtStatement
    /\ Program[pc].op = "eval"
    /\ Bound(Program[pc])
    /\ eval_args' = [eval_args EXCEPT ![Program[pc].fam] =
                        [x |-> env[Program[pc].x], y |-> env[Program[pc].y]]]
    /\ LET body == RunBody(Body("eval_metrics"), names)
       IN  /\ printed' = [printed EXCEPT ![Program[pc].fam] = @ \cup body.printed]
           /\ IF body.exc = "none"
              THEN Return
              ELSE Raise(body.exc) /\ names' = names
    /\ UNCHANGED <<dataVars, pairVars, tuneVars, mode, failures, nrows, env, grid_fit, final_fit>>

Next ==
    \/ NameErrorStatement
    \/ PlainStatement
    \/ SplitStatement
    \/ SplitRaises
    \/ EstimatorStatement
    \/ GridSearchStatement
    \/ BestParamsStatement
    \/ ConstructStatement
    \/ FitStatement
    \/ PredictStatement
    \/ PredictUnfitted
    \/ LibraryRaises
    \/ EvalStatement

Spec == Init /\ [][Next]_vars

(***************************************************************************)
(* Two runs side by side: the cleaning and encoding cells on two inputs    *)
(* that differ in one cell of one row.  What the cells compute depends on  *)
(* no seed.                                                                *)
(***************************************************************************)
\* Frame f with value v in cell (c, r), as read_csv would have read it.
WithCell(f, c, r, v) ==
    LET cell == [f.cell EXCEPT ![c][r] = v]
        k == Cardinality({q \in Range(f.index) : IsNull(cell[c][q])})
    IN  [f EXCEPT !.cell = cell, !.dtype[c] = RawDtype(c, k, Len(f.index))]

\* The values the second input holds in the changed cell: nothing, or the
\* value of the next row.
ChangedValues(f, c, r) ==
    {NaN, RawValue(c, (r % Len(f.index)) + 1)} \ {f.cell[c][r]}

InitPair ==
    /\ DataStart("off", NoFrame)
    /\ KernelStart(0, "run_all", 0)
    /\ \E f \in RawFrames :
       \E c \in Range(Schema) \ {"Id"} :
       \E r \in Range(f.index) :
       \E v \in ChangedValues(f, c, r) :
           pair = [stage |-> "read", row |-> r, a |-> NewRun(f),
                   b |-> NewRun(WithCell(f, c, r, v))]

\* Lines 200-288 in both runs.
CleanRun(run) ==
    LET out == CleanerOf(run.input)
    IN  [run EXCEPT !.cleaned = out.frame, !.exc = out.exc]

PairCleaner ==
    /\ pair.stage = "read"
    /\ pair' = [pair EXCEPT !.stage = "cleaned", !.a = CleanRun(pair.a),
                            !.b = CleanRun(pair.b)]
    /\ UNCHANGED <<dataVars, kernelVars>>

\* Lines 417-610 in both runs; a run that has raised runs no further cell.
EncodeRun(run) ==
    IF run.exc # "none" THEN run
    ELSE LET out == EncoderOf(run.cleaned)
         IN  [run EXCEPT !.encoded = out.frame, !.exc = out.exc]

PairEncoder ==
    /\ pair.stage = "cleaned"
    /\ pair' = [pair EXCEPT !.stage = "encoded", !.a = EncodeRun(pair.a),
                            !.b = EncodeRun(pair.b)]
    /\ UNCHANGED <<dataVars, kernelVars>>

NextPair ==
    \/ PairCleaner
    \/ PairEncoder

SpecPair == InitPair /\ [][NextPair]_vars

(***************************************************************************)
(* Claims about the data level, checked under SpecPrep.                    *)
(***************************************************************************)
Stages ==
    <<"drop", "dtypes", "nulls", "mode", "mean", "still_null", "copy", "iqr",
      "zscore", "ordinal", "dummies", "label", "astype", "encoded", "select",
      "final", "done">>

\* Whether the cell named s has run to its end.
Passed(s) == IndexOf(Stages, stage) > IndexOf(Stages, s)

\* Whether the drop cell has run, to its end or to its KeyError.
DropCellRan == Passed("drop") \/ exc # "none"

\* C2: once the drop cell has run, every column of the input whose missing
\* fraction is strictly greater than 0.3 is absent from df_dropped, and every
\* column other than Id whose missing fraction is at most 0.3 (exactly 0.3
\* included) is present.
C2_ThresholdDrop ==
    DropCellRan =>
        \A c \in Range(df.cols) :
            LET k == NullCount(df, c)
                n == Len(df.index)
            IN  /\ 10 * k > 3 * n => ~HasCol(df_dropped, c)
                /\ (10 * k <= 3 * n /\ c # "Id") => HasCol(df_dropped, c)

\* A column with exactly 3 of 10 cells missing was kept and one with more
\* was dropped.
C2_Witness ==
    /\ Passed("drop")
    /\ \E c \in Range(df.cols) :
          /\ NullCount(df, c) > 0
          /\ 10 * NullCount(df, c) = 3 * Len(df.index)
          /\ HasCol(df_dropped, c)
    /\ \E c \in Range(df.cols) :
          /\ 10 * NullCount(df, c) > 3 * Len(df.index)
          /\ ~HasCol(df_dropped, c)

\* C3: after the mode and the mean imputation cells no cell of df_dropped is
\* missing, whatever frame passed the column drop.
C3_NoMissingCells ==
    Passed("mean") =>
        \A c \in Range(df_dropped.cols) : \A r \in Range(df_dropped.index) :
            ~IsNull(df_dropped.cell[c][r])

\* Both imputations had cells to fill.
C3_Witness ==
    /\ Passed("mean")
    /\ cat_null_columns # <<>>
    /\ num_null_columns # <<>>
    /\ \E c \in Range(cat_null_columns) : df_dropped.cell[c][1] = Mode(df_dropped, c)
    /\ \E c \in Range(num_null_columns) : df_dropped.cell[c][1].den > 1

\* The indicator columns of df_clean generated from column c.
IndicatorsOf(c) ==
    {d \in Range(df_clean.cols) : \E cat \in Range(LexOrder) : d = DummyName(c, cat)}

\* C4: after get_dummies, and after the cast to int, every row has exactly
\* one indicator of each one-hot encoded column equal to 1 and all its other
\* indicators equal to 0.
C4_OneHotExactlyOne ==
    Passed("dummies") =>
        \A c \in Range(one_hot_enc_cols) : \A inds \in {IndicatorsOf(c)} :
            \A r \in Range(df_clean.index) :
                /\ Cardinality({d \in inds : df_clean.cell[d][r].num = 1}) = 1
                /\ \A d \in inds :
                      /\ df_clean.cell[d][r].num \in {0, 1}
                      /\ df_clean.cell[d][r].den = 1
                      /\ df_clean.cell[d][r].t =
                            IF Passed("astype") THEN "num" ELSE "bool"

\* The cast has run on a frame whose one-hot column had missing cells, and
\* the column has more than one indicator.
C4_Witness ==
    /\ Passed("astype")
    /\ \E c \in Range(one_hot_enc_cols) :
          /\ c \in Range(cat_null_columns)
          /\ Cardinality(IndicatorsOf(c)) > 1

\* C5: no stage removes or adds rows: df_dropped, df_clean (also after the
\* outlier section), df_encoded and df_final hold exactly the rows of df.
C5_RowsPreserved ==
    /\ DropCellRan     => Range(df_dropped.index) = Range(df.index)
                          /\ Len(df_dropped.index) = Len(df.index)
    /\ Passed("copy")  => Range(df_clean.index) = Range(df.index)
                          /\ Len(df_clean.index) = Len(df.index)
    /\ Passed("encoded") => Range(df_encoded.index) = Range(df.index)
                          /\ Len(df_encoded.index) = Len(df.index)
    /\ Passed("final") => Range(df_final.index) = Range(df.index)
                          /\ Len(df_final.index) = Len(df.index)

\* The whole preparation ran on a frame that kept the column holding an
\* outlying value, and df_final has features.
C5_Witness ==
    /\ stage = "done"
    /\ HasCol(df_encoded, "LotFrontage")
    /\ Len(df_final.cols) > 1
    /\ Len(df_final.index) = NRows

\* C7: df_final holds exactly the features of df_encoded whose importance is
\* strictly greater than 0.001 (SalePrice is not ranked), in an order in which
\* the importance never increases, and then SalePrice, once.
C7_FinalFrameColumns ==
    Passed("final") =>
        LET n   == Len(df_final.cols)
            sel == SubSeq(df_final.cols, 1, n - 1)
        IN  /\ n >= 1
            /\ df_final.cols[n] = "SalePrice"
            /\ "SalePrice" \notin Range(sel)
            /\ "SalePrice" \notin DOMAIN importance
            /\ Cardinality(Range(sel)) = Len(sel)
            /\ Range(sel) = {c \in Range(df_encoded.cols) \ {"SalePrice"} :
                                importance[c] > 1000}
            /\ \A i \in DOMAIN sel : \A j \in DOMAIN sel :
                  i < j => importance[sel[i]] >= importance[sel[j]]

\* A feature of importance exactly 0.001 was left out, two features of
\* different importance were kept.
C7_Witness ==
    /\ Passed("final")
    /\ \E c \in DOMAIN importance : importance[c] = 1000 /\ ~HasCol(df_final, c)
    /\ \E c \in DOMAIN importance : \E d \in DOMAIN importance :
          /\ importance[c] > importance[d]
          /\ HasCol(df_final, c)
          /\ HasCol(df_final, d)

\* C8: the selection cell run again on the same df_encoded, with
\* random_state=1 and the threshold 0.001, selects the same set of columns.
C8_SelectionRepeats ==
    selection_runs >= 2 => Range(selected_features) = prev_selected

\* The cell has run twice and selected some but not all features.
C8_Witness ==
    /\ selection_runs = 2
    /\ selected_features # <<>>
    /\ Len(selected_features) < Len(Features(df_encoded))

\* Every cell of column c of the input is missing.
WhollyNull(c) == NullCount(df, c) = Len(df.index)

\* The columns a cell after the threshold drop names: Id (line 213), the
\* encoders' columns (lines 567, 579, 590), SalePrice (lines 643, 672).
NamedLater ==
    {"Id", "SalePrice"} \cup Range(ord_enc_cols) \cup Range(one_hot_enc_cols)
        \cup Range(bin_enc_cols)

\* The selection forest has been fitted: the first model the notebook trains.
ModelTrained == forest # <<>>

\* C11 as stated: with a wholly-null column in the input a library call
\* raises and the run ends before any model is trained.
C11_WhollyNullRaises ==
    (\E c \in Range(df.cols) : WhollyNull(c)) =>
        /\ ~ModelTrained
        /\ stage # "done"

\* C11: a wholly-null column is removed by the threshold drop, which raises
\* nothing.  The run ends in an exception (KeyError) before any model is
\* trained when the column is one a later cell names (Id, an encoder's
\* column, SalePrice); when no column removed by the threshold drop is named
\* later, no cell raises and the models are trained without the column.
C11_WhollyNullDropped ==
    /\ \A c \in Range(df.cols) :
           WhollyNull(c) =>
               /\ DropCellRan => ~HasCol(df_dropped, c)
               /\ c \in NamedLater =>
                      /\ ~ModelTrained
                      /\ stage \notin {"final", "done"}
                      /\ exc \in {"none", "KeyError"}
    /\ ColumnsToDrop(df) \cap NamedLater = {} => exc = "none"

C11_Witness ==
    /\ \E c \in Range(df.cols) : WhollyNull(c) /\ c \notin NamedLater
    /\ stage = "done"
    /\ exc = "none"
    /\ ModelTrained
    /\ HasCol(df_final, "SalePrice")

\* C13 as stated: the column-drop cell completes without error on every
\* input frame and its result holds no Id column.
C13_IdDroppedUnconditionally ==
    /\ stage = "drop" => exc = "none"
    /\ Passed("drop") => ~HasCol(df_dropped, "Id")

\* The rank of the quality grades in their domain, lowest first.
DomainOrder == <<"Po", "Fa", "TA", "Gd", "Ex">>

Rank(v) == IndexOf(DomainOrder, v.s)

\* C14 as stated: an ordinal-encoded column holds the codes 0..k-1 of its k
\* distinct values, and of two cells the one with the higher grade in the
\* domain order never has the smaller code.
C14_OrdinalPreservesRank ==
    Passed("ordinal") =>
        \A c \in Range(ord_enc_cols) :
            LET rows == Range(df_clean.index)
                k == Len(Categories(df_dropped, c))
            IN  /\ {df_clean.cell[c][r].num : r \in rows} = 0..(k - 1)
                /\ \A r1, r2 \in rows :
                       Rank(df_dropped.cell[c][r1]) < Rank(df_dropped.cell[c][r2])
                           => df_clean.cell[c][r1].num <= df_clean.cell[c][r2].num

\* The frame the cast at line 600 is applied to: the cleaned frame through
\* the three encoders.
PreCast ==
    LabelEncodeAll(
        GetDummies(OrdinalEncodeAll(df_dropped, ord_enc_cols).frame, one_hot_enc_cols),
        bin_enc_cols).frame

\* Integer z is value p with its fractional part removed.
IsTruncationOf(z, p) ==
    IF p.num >= 0
    THEN z >= 0 /\ z * p.den <= p.num /\ p.num < (z + 1) * p.den
    ELSE z <= 0 /\ z * p.den >= p.num /\ p.num > (z - 1) * p.den

\* C15: after the cast every column is of an integer type and every cell is
\* the integer its value before the cast truncates to toward zero: integral
\* cells keep their value, indicators become 1 or 0, fractional cells lose
\* their fractional part.
C15_CastTruncates ==
    Passed("astype") =>
        /\ df_clean.cols = PreCast.cols
        /\ \A c \in Range(df_clean.cols) :
               /\ df_clean.dtype[c] = "int64"
               /\ \A r \in Range(df_clean.index) :
                      LET v == df_clean.cell[c][r]
                          p == PreCast.cell[c][r]
                      IN  /\ v.t = "num" /\ v.den = 1
                          /\ IsTruncationOf(v.num, p)
                          /\ p.den = 1 => v.num = p.num
                          /\ p.t = "bool" => v.num \in {0, 1}

\* A mean-imputed cell lost its fractional part and an indicator became 1.
C15_Witness ==
    /\ Passed("astype")
    /\ \E c \in Range(df_clean.cols) : \E r \in Range(df_clean.index) :
           /\ PreCast.cell[c][r].den > 1
           /\ df_clean.cell[c][r].num * PreCast.cell[c][r].den < PreCast.cell[c][r].num
    /\ \E c \in Range(df_clean.cols) : \E r \in Range(df_clean.index) :
           PreCast.cell[c][r] = Bool(TRUE) /\ df_clean.cell[c][r] = Num(1, 1)

\* The check cell has run, in its place or by hand.
CheckCellRan == stage = "checked" \/ (stage # "checked" /\ Passed("still_null"))

\* C16 as stated: the number the check cell computes is the number of
\* missing cells of df_dropped.
C16_StillNullCountsMissing ==
    CheckCellRan => still_null = MissingCells(df_dropped)

(***************************************************************************)
(* Claims about the kernel level, checked under Spec.                      *)
(***************************************************************************)
RunEnded == halted \/ pc = Len(Program) + 1

\* The libraries raised nothing and the split has rows for both parts.
WellFormedRun == failures = 0 /\ ~SplitFails(nrows)

NameErrors == {e \in errors : e.exc = "NameError"}

\* C1: a run of the cells in order on a well-formed input ends after the
\* last cell with the four metrics printed for each of the four models, and
\* no statement has read a name that no earlier cell bound.
C1_RunPrintsSixteenMetrics ==
    (RunEnded /\ WellFormedRun) =>
        /\ pc = Len(Program) + 1
        /\ NameErrors = {}
        /\ \A f \in Families : printed[f] = Metrics

\* The four names a call of split_dataset binds, by the name of its first.
PartsOf(first) ==
    IF first = "X_train" THEN <<"X_train", "X_test", "y_train", "y_test">>
    ELSE <<"X_train_01", "X_test_01", "y_train_01", "y_test_01">>

IsPartition(p) ==
    /\ env[p[1]].rows \cap env[p[2]].rows = {}
    /\ env[p[1]].rows \cup env[p[2]].rows = 1..nrows
    /\ env[p[3]].rows = env[p[1]].rows
    /\ env[p[4]].rows = env[p[2]].rows
    /\ \A k \in 1..4 : env[p[k]].part = (IF k <= 2 THEN "X" ELSE "y")
    /\ \A k \in 2..4 : env[p[k]].frame = env[p[1]].frame
    /\ Abs(TestSizeDen * Cardinality(env[p[2]].rows) - TestSizeNum * nrows) < TestSizeDen

\* C6: what split_dataset returns partitions the rows of its frame: train
\* and test are disjoint and cover every row, features and target of a part
\* hold the same rows, and the test part has within one row of 0.2 n rows.
C6_SplitPartitions ==
    \A first \in {"X_train", "X_train_01"} :
        first \in names => IsPartition(PartsOf(first))

C6_Witness ==
    /\ "X_train" \in names
    /\ nrows = MaxRows
    /\ Cardinality(env["X_test"].rows) = TestRows(MaxRows)
    /\ Cardinality(env["X_train"].rows) = MaxRows - TestRows(MaxRows)

PredName(f) == f \o "_pred"

\* Family f is fitted on train and evaluated against test, the parts of one
\* split named by p.
UsesPartition(f, p) ==
    /\ grid_fit[f] # NoFit => grid_fit[f] = [x |-> env[p[1]], y |-> env[p[3]]]
    /\ final_fit[f] # NoFit => final_fit[f] = [x |-> env[p[1]], y |-> env[p[3]]]
    /\ PredName(f) \in names => env[PredName(f)].rows = env[p[2]].rows
    /\ eval_args[f] # NoFit =>
           eval_args[f] = [x |-> env[p[4]], y |-> env[PredName(f)]]

\* C9 as stated: all four models are fitted on the training rows and
\* scored on the test rows of the one partition of df_final.
C9_OnePartitionOfFinal ==
    \A f \in Families :
        /\ UsesPartition(f, PartsOf("X_train"))
        /\ final_fit[f] # NoFit => final_fit[f].x.frame = "df_final"

\* C9: logistic regression, random forest and XGBoost are fitted on the
\* training rows and evaluated on the test rows of the one partition of
\* df_final; CatBoost is fitted and evaluated on the parts of a second,
\* separately drawn partition of df_dropped.
C9_PartitionPerFrame ==
    /\ \A f \in Families \ {"cat"} :
           /\ UsesPartition(f, PartsOf("X_train"))
           /\ final_fit[f] # NoFit => final_fit[f].x.frame = "df_final"
    /\ UsesPartition("cat", PartsOf("X_train_01"))
    /\ final_fit["cat"] # NoFit => final_fit["cat"].x.frame = "df_dropped"

C9_Witness ==
    /\ \A f \in Families : final_fit[f] # NoFit
    /\ eval_args["lr"] # NoFit
    /\ eval_args["cat"] # NoFit
    /\ final_fit["cat"].x.rows # final_fit["lr"].x.rows
    /\ env["cat_pred"].rows # env["lr_pred"].rows

\* A library raised while family f was tuned, fitted or used to predict.
LibraryFailed(f) ==
    \E e \in errors : e.exc = "LibraryError" /\ Program[e.stmt].fam = f

Trained(f) == grid_fit[f] # NoFit /\ final_fit[f] # NoFit

Predicted(f) == PredName(f) \in names

Evaluated(f) == eval_args[f] # NoFit

\* C10 as stated: an exception while tuning, fitting or predicting with one
\* family leaves the other three trained, used for prediction and evaluated
\* by the end of the run.
C10_FamiliesIndependent ==
    \A f \in Families :
        (RunEnded /\ ~SplitFails(nrows) /\ LibraryFailed(f)) =>
            \A g \in Families \ {f} : Trained(g) /\ Predicted(g) /\ Evaluated(g)

\* Statement j, of a model family, has acted.
Acted(j) ==
    LET s == Program[j]
    IN  CASE s.op = "grid" -> grid_fit[s.fam] # NoFit
          [] s.op = "fit" -> final_fit[s.fam] # NoFit
          [] s.op = "predict" -> Predicted(s.fam)
          [] s.op = "eval" -> Evaluated(s.fam)

\* The families whose predictions share the cell at line 909, in its order.
SharedPredictCell == <<"lr", "rf", "xgb">>

\* C10: no cell catches an exception.  Under Run All the statement that
\* raises is the last to run: no family tuned, fitted, used for prediction
\* or evaluated by a later statement is.  Run by hand, a family in whose
\* statements no library raised is trained; logistic regression, random
\* forest and XGBoost have predictions and are evaluated exactly when no
\* library raised for the family or for one before it in the shared
\* prediction cell; CatBoost depends on its own statements only.
C10_FailureStopsLaterFamilies ==
    /\ halted =>
           \A j \in (pc + 1)..Len(Program) :
               Program[j].op \in {"grid", "fit", "predict", "eval"} => ~Acted(j)
    /\ (mode = "interactive" /\ RunEnded /\ ~SplitFails(nrows)) =>
           /\ \A f \in Families :
                  Trained(f) <=>
                      ~\E e \in errors : /\ e.exc = "LibraryError"
                                         /\ Program[e.stmt].fam = f
                                         /\ Program[e.stmt].op # "predict"
           /\ \A k \in 1..3 :
                  /\ Predicted(SharedPredictCell[k]) <=>
                         \A i \in 1..k : ~LibraryFailed(SharedPredictCell[i])
                  /\ Evaluated(SharedPredictCell[k]) <=>
                         \A i \in 1..k : ~LibraryFailed(SharedPredictCell[i])
           /\ Predicted("cat") <=> ~LibraryFailed("cat")
           /\ Evaluated("cat") <=> ~LibraryFailed("cat")

C10_Witness ==
    /\ halted
    /\ LibraryFailed("lr")
    /\ \A f \in Families \ {"lr"} : ~Trained(f) /\ ~Predicted(f) /\ ~Evaluated(f)

\* C12: for every family the final model is constructed with the
\* combination its grid search found best, after the search has been
\* fitted, and is fitted on the data the search was fitted on.
C12_FinalModelFromBestParams ==
    \A f \in Families :
        /\ model[f] # NoModel =>
               /\ grid_fit[f] # NoFit
               /\ tuning[f].found \in 1..MaxGrid
               /\ model[f].params = tuning[f].found
        /\ final_fit[f] # NoFit =>
               /\ model[f] # NoModel
               /\ final_fit[f] = grid_fit[f]
               /\ final_fit[f].x.part = "X"
               /\ final_fit[f].y.part = "y"
               /\ Cardinality(final_fit[f].x.rows) = nrows - TestRows(nrows)

\* All four final models are fitted, on different best combinations.
C12_Witness ==
    /\ \A f \in Families : final_fit[f] # NoFit /\ model[f].params = tuning[f].found
    /\ model["lr"].params # model["rf"].params
    /\ model["xgb"].params # model["cat"].params

\* C17 as stated: the final model is constructed with every setting the
\* searched estimator was constructed with.
C17_FinalKeepsSettings ==
    \A f \in Families :
        model[f] # NoModel => tuning[f].searched \subseteq model[f].settings

(***************************************************************************)
(* Claims about two runs side by side, checked under SpecPair.             *)
(***************************************************************************)
\* The test parts a split may draw that hold the row the inputs differ in.
TestPartsWithChangedRow ==
    {t \in SUBSET Range(pair.a.input.index) :
        pair.row \in t /\ Cardinality(t) = TestRows(Len(pair.a.input.index))}

\* Row r of frame f: its value per column.
RowOf(f, r) == [c \in Range(f.cols) |-> f.cell[c][r]]

BothRan == pair.a.exc = "none" /\ pair.b.exc = "none"

\* C18 as stated, for the frames every model is fitted on: when the two
\* inputs differ only in a row of the test part, the training rows after
\* imputation and the training rows after encoding, from which the selector
\* and the models take their training data, are the same in both runs.
C18_TestRowsDoNotLeak ==
    \A t \in TestPartsWithChangedRow :
        \A r \in Range(pair.a.input.index) \ t :
            /\ (pair.stage \in {"cleaned", "encoded"} /\ BothRan) =>
                   RowOf(pair.a.cleaned, r) = RowOf(pair.b.cleaned, r)
            /\ (pair.stage = "encoded" /\ BothRan) =>
                   RowOf(pair.a.encoded, r) = RowOf(pair.b.encoded, r)

====
